---- MODULE Spec2Model ----
(***************************************************************************)
(* Model of the MQTT v3 sink (src/src/v3/sink.rs): the in-flight           *)
(* bookkeeping shared by the outbound send operations, the credit waiters  *)
(* and the dispatcher's ack reception; and of the MQTT v5 handshake        *)
(* (src/src/v5/server.rs), which is a specification of its own, HsSpec.    *)
(*                                                                         *)
(* The connection runs on one cooperatively scheduled thread, so every     *)
(* action below is the code executed between two suspension points.        *)
(***************************************************************************)
EXTENDS Integers, Sequences, FiniteSets, TLC

\* ---------------------------------------------------------------- bounds
\* Number of sink callers (each performs one operation).
NumTasks == 3
\* Largest receive-maximum the peer may have advertised.
MaxCap == 2
\* Largest packet id a caller chooses explicitly / a peer acks out of the blue.
MaxId == 1

\* Packet ids are u16.
U16 == 65536

\* Largest handshake_timeout (ms) the server is configured with.
MaxTimeout == 1
\* Largest receive_max and max_packet_size a CONNECT declares.
MaxReceive == 1
\* Largest keep-alive (s) of a CONNECT and of a HandshakeAck.
MaxKeepAlive == 1

\* Most calls of the control service that are followed.
MaxCalls == 3

\* The cap of a peer that declares no receive_max.
DefaultReceiveMax == 16

Tasks == 1..NumTasks
AckTypes == {"Publish", "Subscribe", "Unsubscribe"}

VARIABLES
    state,          \* MqttShared.state as is_open() reads it: "open" | "closed"
    cap,            \* MqttShared.cap
    inflight,       \* queues.inflight: set of [id, tx, tp], at most one per id;
                    \* tx names the task holding the receiver, 0 once it is gone
    inflight_order, \* queues.inflight_order
    waiters,        \* queues.waiters: per queued sender, the task holding its
                    \* receiver, 0 once it is gone
    inflight_idx,   \* the packet id counter behind next_id()
    pc,             \* per task: "idle" | "credit" | "ack" | "done" | "dropped"
    op,             \* per task suspended for credit: "Send" | "Ready"
    chan,           \* per task: the oneshot channel its future awaits
    ret,            \* what the step just taken gave its caller: [op, val]
    wire,           \* the frames the step just taken encoded: state.write().encode(..)
    dispatcher      \* "running" | "panicked"

vars == <<state, cap, inflight, inflight_order, waiters, inflight_idx,
          pc, op, chan, ret, wire, dispatcher>>

\* The v5 handshake of one accepted connection. An Option is a set with at
\* most one element.
VARIABLES
    handshake_timeout,  \* MqttServer.handshake_timeout, in ms
    max_qos,            \* MqttServer.max_qos: Option<QoS>
    hs_pc,              \* where handshake() is suspended: "read" | "auth" |
                        \* "send" | "shutdown"; "done" once the service call
                        \* has a result; "off" while no handshake is modelled
    shared_cap,         \* shared.cap
    max_outbound_size,  \* the codec's outbound size limit (0: none)
    keep_alive,         \* the local keep_alive: connect.keep_alive
    state_open,         \* state.is_open() of the connection's framed state
    ack,                \* the HandshakeAck in hand: Option of [packet, keepalive]
    connacks,           \* the CONNACK packets encoded or sent so far
    write_shutdown,     \* WriteTask::shutdown has run
    steps,              \* the stages handshake() has entered, in order
    hs_result           \* the result of the handshake service: "none" |
                        \* "Session" | the MqttError

hsvars == <<handshake_timeout, max_qos, hs_pc, shared_cap, max_outbound_size,
            keep_alive, state_open, ack, connacks, write_shutdown, steps,
            hs_result>>

\* The control service of one server.
VARIABLES
    srv_control,    \* MqttServer.srv_control: "DefaultControlService" | "User"
    control_log     \* the calls made to the control service so far, each
                    \* with the service that took it and what it answered

ctlvars == <<srv_control, control_log>>

allvars == <<vars, hsvars, ctlvars>>

\* ------------------------------------------------------------- helpers

\* A variant of is_open below that takes every connection for open.
is_open_always == TRUE

\* shared.state.is_open()
is_open == state = "open"

contains_key(idx) == \E e \in inflight : e.id = idx

\* A variant of get below that finds the entry with the greatest id.
get_last(idx) == CHOOSE e \in inflight : \A f \in inflight : f.id <= e.id

get(idx) == CHOOSE e \in inflight : e.id = idx

Keys == {e.id : e \in inflight}

RECURSIVE SeqSet(_)
SeqSet(s) == IF s = <<>> THEN {} ELSE {Head(s)} \cup SeqSet(Tail(s))

\* A variant of the removal below that leaves the entry in the map.
remove_none(idx) == inflight

\* queues.inflight.remove(&idx)
remove(idx) == {e \in inflight : e.id # idx}

\* MqttShared::has_credit
has_credit == Cardinality(inflight) < cap

\* MqttSink::credit: cap - inflight.len()
credit == cap - Cardinality(inflight)

\* A variant of next_id below that does not look at what is in flight.
next_id_unchecked ==
    LET cand(k) == (inflight_idx + k) % U16
    IN  IF cand(1) # 0 THEN cand(1) ELSE cand(2)

\* MqttShared::next_id: the next id after the counter, wrapping, that is
\* neither zero nor in flight.
next_id ==
    LET cand(k) == (inflight_idx + k) % U16
        k0 == CHOOSE k \in 1..(Cardinality(inflight) + 2) :
                  /\ cand(k) # 0 /\ ~contains_key(cand(k))
                  /\ \A j \in 1..(k - 1) : cand(j) = 0 \/ contains_key(cand(j))
    IN  cand(k0)

\* Ack::is_match
is_match(ackTp, tp) == ackTp = tp

\* A oneshot send succeeds iff the receiver is alive, that is iff the future
\* that owns it is still suspended on it.
rx_alive(t, at) == t # 0 /\ pc[t] = at

\* A variant of the loop below that pops a single waiter, alive or not.
wake_once(ws) ==
    IF ws = <<>> THEN [woken |-> 0, rest |-> <<>>]
    ELSE [woken |-> IF rx_alive(Head(ws), "credit") THEN Head(ws) ELSE 0,
          rest |-> Tail(ws)]

\* The loop of pkt_ack that pops waiters until one send succeeds.
RECURSIVE wake(_)
wake(ws) ==
    IF ws = <<>> THEN [woken |-> 0, rest |-> <<>>]
    ELSE IF rx_alive(Head(ws), "credit")
         THEN [woken |-> Head(ws), rest |-> Tail(ws)]
         ELSE wake(Tail(ws))

\* Dropping the senders held in a set of inflight entries and in a waiter
\* queue: a live receiver that got no value observes the channel as closed.
drop_senders(es, ws, c) ==
    [t \in Tasks |->
        IF /\ c[t] = "pending"
           /\ \/ rx_alive(t, "ack") /\ \E e \in es : e.tx = t
              \/ rx_alive(t, "credit") /\ t \in SeqSet(ws)
        THEN "closed" ELSE c[t]]

\* ---------------------------------------------------------------- Init

Init ==
    /\ state = "open"
    /\ cap \in 1..MaxCap
    /\ inflight = {}
    /\ inflight_order = <<>>
    /\ waiters = <<>>
    /\ inflight_idx = 0
    /\ pc = [t \in Tasks |-> "idle"]
    /\ op = [t \in Tasks |-> "none"]
    /\ chan = [t \in Tasks |-> "none"]
    /\ ret = [op |-> "none", val |-> "none"]
    /\ wire = <<>>
    /\ dispatcher = "running"
    /\ handshake_timeout = 0
    /\ max_qos = {}
    /\ hs_pc = "off"
    /\ shared_cap = 0
    /\ max_outbound_size = 0
    /\ keep_alive = 0
    /\ state_open = TRUE
    /\ ack = {}
    /\ connacks = <<>>
    /\ write_shutdown = FALSE
    /\ steps = <<>>
    /\ hs_result = "none"
    /\ srv_control = "DefaultControlService"
    /\ control_log = <<>>

\* ------------------------------------------------------ send operations

\* A variant of publish below whose packet asks for an acknowledgement.
publish_at_least_once == [packet |-> "Publish", qos |-> "AtLeastOnce", packet_id |-> 0]

\* MqttSink::publish: the packet a new PublishBuilder holds.
publish == [packet |-> "Publish", qos |-> "AtMostOnce", packet_id |-> 0]

\* The frame a send encodes: codec::Packet::Publish with the QoS the
\* operation set, codec::Packet::Subscribe or codec::Packet::Unsubscribe.
Packet(tp, idx) ==
    [packet |-> tp, qos |-> IF tp = "Publish" THEN "AtLeastOnce" ELSE "none",
     packet_id |-> idx]

\* The future of task t ends, by returning r or by being dropped: its
\* locals and its receiver are gone.
Return(t, o, r) ==
    /\ pc' = [pc EXCEPT ![t] = "done"]
    /\ ret' = [op |-> o, val |-> r]
    /\ wire' = <<>>
    /\ op' = [op EXCEPT ![t] = "none"]
    /\ chan' = [chan EXCEPT ![t] = "none"]

\* A variant of Register below without the contains_key check: the insert
\* replaces the entry registered under the id.
Register_unchecked(t, tp, id, encErr) ==
    LET idx == IF id = 0 THEN next_id ELSE id IN
    /\ inflight_idx' = IF id = 0 THEN idx ELSE inflight_idx
    /\ inflight' = {e \in inflight : e.id # idx} \cup
            {[id |-> idx, tx |-> IF encErr THEN 0 ELSE t, tp |-> tp]}
    /\ inflight_order' = Append(inflight_order, idx)
    /\ IF encErr
       THEN Return(t, "send", "Encode")
       ELSE /\ pc' = [pc EXCEPT ![t] = "ack"]
            /\ chan' = [chan EXCEPT ![t] = "pending"]
            /\ op' = [op EXCEPT ![t] = "none"]
            /\ ret' = [op |-> "send", val |-> "Pending"]
            /\ wire' = <<Packet(tp, idx)>>

\* The part of a send after the credit gate: allocate or accept the id,
\* register it, encode, and either await the ack or fail.
\* tp is the AckType the operation registers, id the packet id the builder
\* holds (0: none set), encErr whether state.write().encode(..) fails.
Register(t, tp, id, encErr) ==
    LET idx == IF id = 0 THEN next_id ELSE id IN
    /\ inflight_idx' = IF id = 0 THEN idx ELSE inflight_idx
    /\ IF contains_key(idx)
       THEN /\ UNCHANGED <<inflight, inflight_order>>
            /\ Return(t, "send", "PacketIdInUse")
       ELSE /\ inflight' = inflight \cup
                    {[id |-> idx, tx |-> IF encErr THEN 0 ELSE t, tp |-> tp]}
            /\ inflight_order' = Append(inflight_order, idx)
            /\ IF encErr
               THEN Return(t, "send", "Encode")
               ELSE /\ pc' = [pc EXCEPT ![t] = "ack"]
                    /\ chan' = [chan EXCEPT ![t] = "pending"]
                    /\ op' = [op EXCEPT ![t] = "none"]
                    /\ ret' = [op |-> "send", val |-> "Pending"]
                    /\ wire' = <<Packet(tp, idx)>>

\* A send from its call to its first suspension point or its return.
Send(t, tp, id, encErr) ==
    /\ pc[t] = "idle"
    /\ \A u \in Tasks : u < t => pc[u] # "idle"
    /\ UNCHANGED <<state, cap, hsvars, ctlvars, dispatcher>>
    /\ IF ~is_open
       THEN /\ Return(t, "send", "Disconnected")
            /\ UNCHANGED <<inflight, inflight_order, waiters, inflight_idx>>
       ELSE IF ~has_credit
       THEN /\ waiters' = Append(waiters, t)
            /\ chan' = [chan EXCEPT ![t] = "pending"]
            /\ pc' = [pc EXCEPT ![t] = "credit"]
            /\ op' = [op EXCEPT ![t] = "Send"]
            /\ ret' = [op |-> "send", val |-> "Pending"]
            /\ wire' = <<>>
            /\ UNCHANGED <<inflight, inflight_order, inflight_idx>>
       ELSE /\ Register(t, tp, id, encErr)
            /\ UNCHANGED waiters

\* PublishBuilder::send_at_least_once
send_at_least_once(t, id, encErr) == Send(t, "Publish", id, encErr)

\* SubscribeBuilder::send
subscribe_send(t, id, encErr) == Send(t, "Subscribe", id, encErr)

\* UnsubscribeBuilder::send
unsubscribe_send(t, id, encErr) == Send(t, "Unsubscribe", id, encErr)

\* PublishBuilder::send_at_most_once: a synchronous call, open to every
\* holder of the sink at any time; it encodes the builder's packet as
\* publish() made it.
send_at_most_once(encErr) ==
    /\ UNCHANGED <<state, cap, hsvars, ctlvars, inflight, inflight_order, waiters, inflight_idx,
                   pc, op, chan, dispatcher>>
    /\ IF is_open
       THEN IF encErr
            THEN /\ ret' = [op |-> "send_at_most_once", val |-> "Encode"]
                 /\ wire' = <<>>
            ELSE /\ ret' = [op |-> "send_at_most_once", val |-> "Ok"]
                 /\ wire' = <<publish>>
       ELSE /\ ret' = [op |-> "send_at_most_once", val |-> "Disconnected"]
            /\ wire' = <<>>

\* A send suspended on its credit waiter is polled again: rx.await has
\* resolved, with a value or because the sender was dropped. Nothing reads
\* the suspended future's packet (tp, id) before this point, so it is drawn
\* here rather than carried in the state.
send_resume(t, tp, id, encErr) ==
    /\ pc[t] = "credit"
    /\ op[t] = "Send"
    /\ chan[t] \in {"sent", "closed"}
    /\ UNCHANGED <<state, cap, hsvars, ctlvars, waiters, dispatcher>>
    /\ IF chan[t] = "closed"
       THEN /\ Return(t, "send", "Disconnected")
            /\ UNCHANGED <<inflight, inflight_order, inflight_idx>>
       ELSE Register(t, tp, id, encErr)

\* A send awaiting its ack is polled again: the reply channel has resolved.
ack_resume(t) ==
    /\ pc[t] = "ack"
    /\ chan[t] \in {"sent", "closed"}
    /\ Return(t, "send", IF chan[t] = "sent" THEN "Ok" ELSE "Disconnected")
    /\ UNCHANGED <<state, cap, hsvars, ctlvars, inflight, inflight_order, waiters, inflight_idx,
                   dispatcher>>

\* A variant of drop_future below that also takes the request out of
\* queues.inflight.
drop_future_unregisters(t) ==
    /\ pc[t] \in {"credit", "ack"}
    /\ Return(t, "drop", "dropped")
    /\ inflight' = {e \in inflight : e.tx # t}
    /\ waiters' = [i \in DOMAIN waiters |-> IF waiters[i] = t THEN 0 ELSE waiters[i]]
    /\ UNCHANGED <<state, cap, hsvars, ctlvars, inflight_order, inflight_idx, dispatcher>>

\* The caller drops the future of a suspended operation, and its receiver
\* with it.
drop_future(t) ==
    /\ pc[t] \in {"credit", "ack"}
    /\ Return(t, "drop", "dropped")
    /\ inflight' = {IF e.tx = t THEN [e EXCEPT !.tx = 0] ELSE e : e \in inflight}
    /\ waiters' = [i \in DOMAIN waiters |-> IF waiters[i] = t THEN 0 ELSE waiters[i]]
    /\ UNCHANGED <<state, cap, hsvars, ctlvars, inflight_order, inflight_idx, dispatcher>>

\* ---------------------------------------------------------------- ready

\* MqttSink::ready, up to its suspension point or its result.
ready(t) ==
    /\ pc[t] = "idle"
    /\ \A u \in Tasks : u < t => pc[u] # "idle"
    /\ UNCHANGED <<state, cap, hsvars, ctlvars, inflight, inflight_order, inflight_idx,
                   dispatcher>>
    /\ IF ~is_open
       THEN /\ Return(t, "ready", "false")
            /\ UNCHANGED waiters
       ELSE IF Cardinality(inflight) >= cap
       THEN /\ waiters' = Append(waiters, t)
            /\ chan' = [chan EXCEPT ![t] = "pending"]
            /\ pc' = [pc EXCEPT ![t] = "credit"]
            /\ op' = [op EXCEPT ![t] = "Ready"]
            /\ ret' = [op |-> "ready", val |-> "Pending"]
            /\ wire' = <<>>
       ELSE /\ Return(t, "ready", "true")
            /\ UNCHANGED waiters

\* The future returned by ready() resolves: rx.await.is_ok().
ready_resume(t) ==
    /\ pc[t] = "credit"
    /\ op[t] = "Ready"
    /\ chan[t] \in {"sent", "closed"}
    /\ Return(t, "ready", IF chan[t] = "sent" THEN "true" ELSE "false")
    /\ UNCHANGED <<state, cap, hsvars, ctlvars, inflight, inflight_order, waiters, inflight_idx,
                   dispatcher>>

\* ------------------------------------------------- close / force_close

\* The body MqttSink::close and MqttSink::force_close share: they differ in
\* the call that ends the open state (state.close(), state.force_close()),
\* after either of which is_open() is false. inf and c are queues.inflight
\* and the channels as the caller left them. held: the caller still holds a
\* RefMut of queues, so the borrow_mut() that follows the state change
\* panics and the two clear() calls never run.
close_body(held, inf, c) ==
    /\ state' = IF is_open THEN "closed" ELSE state
    /\ wire' = <<>>
    /\ IF held
       THEN /\ dispatcher' = "panicked"
            /\ inflight' = inf
            /\ chan' = c
            /\ UNCHANGED waiters
       ELSE /\ inflight' = {}
            /\ waiters' = <<>>
            /\ chan' = drop_senders(inf, waiters, c)
            /\ UNCHANGED dispatcher

\* MqttSink::close, called by the application.
close ==
    /\ close_body(FALSE, inflight, chan)
    /\ ret' = [op |-> "close", val |-> "unit"]
    /\ UNCHANGED <<cap, hsvars, ctlvars, inflight_order, inflight_idx, pc, op>>

\* MqttSink::force_close, called by the application.
force_close ==
    /\ close_body(FALSE, inflight, chan)
    /\ ret' = [op |-> "force_close", val |-> "unit"]
    /\ UNCHANGED <<cap, hsvars, ctlvars, inflight_order, inflight_idx, pc, op>>

\* -------------------------------------------------------------- pkt_ack

\* What pkt_ack returns after its call of close(): the error, unless close()
\* panicked.
ret_after_close(err) ==
    [op |-> "pkt_ack", val |-> IF dispatcher' = "panicked" THEN "panic" ELSE err]

\* MqttSink::pkt_ack, called by the dispatcher for an inbound ack (id, tp).
\* queues is borrowed mutably from the first line to the end of the call,
\* the calls of close() included.
pkt_ack(id, tp) ==
    /\ dispatcher = "running"
    /\ UNCHANGED <<cap, hsvars, ctlvars, inflight_idx, pc, op>>
    /\ IF inflight_order = <<>>
       THEN \* nothing to pop
            /\ UNCHANGED inflight_order
            /\ close_body(TRUE, inflight, chan)
            /\ ret' = ret_after_close("PacketIdMismatch")
       ELSE
       /\ inflight_order' = Tail(inflight_order)
       /\ IF Head(inflight_order) # id \/ ~contains_key(id)
          THEN \* order mismatch, or the id is missing from inflight
               /\ close_body(TRUE, inflight, chan)
               /\ ret' = ret_after_close("PacketIdMismatch")
          ELSE
          LET e == get(id) IN
          IF ~is_match(tp, e.tp)
          THEN \* the removed sender is dropped when the call ends
               /\ close_body(TRUE, remove(id),
                             drop_senders({e}, <<>>, chan))
               /\ ret' = ret_after_close("Unexpected")
          ELSE LET w == wake(waiters) IN
               /\ inflight' = remove(id)
               /\ waiters' = w.rest
               /\ chan' = [t \in Tasks |->
                             IF t = w.woken THEN "sent"
                             ELSE IF t = e.tx /\ rx_alive(t, "ack") THEN "sent"
                             ELSE chan[t]]
               /\ ret' = [op |-> "pkt_ack", val |-> "Ok"]
               /\ wire' = <<>>
               /\ UNCHANGED <<state, dispatcher>>

\* ----------------------------------------------------------------- Next

\* Ids a peer may put in an ack: those in flight, and a few others.
AckIds == SeqSet(inflight_order) \cup Keys \cup (1..MaxId)

Next ==
    \/ \E t \in Tasks, id \in 0..MaxId, encErr \in BOOLEAN :
           send_at_least_once(t, id, encErr)
    \/ \E t \in Tasks, id \in 0..MaxId, encErr \in BOOLEAN :
           subscribe_send(t, id, encErr)
    \/ \E t \in Tasks, id \in 0..MaxId, encErr \in BOOLEAN :
           unsubscribe_send(t, id, encErr)
    \/ \E encErr \in BOOLEAN : send_at_most_once(encErr)
    \/ \E t \in Tasks, tp \in AckTypes, id \in 0..MaxId, encErr \in BOOLEAN :
           send_resume(t, tp, id, encErr)
    \/ \E t \in Tasks : ack_resume(t)
    \/ \E t \in Tasks : drop_future(t)
    \/ \E t \in Tasks : ready(t)
    \/ \E t \in Tasks : ready_resume(t)
    \/ close
    \/ force_close
    \/ \E id \in AckIds, tp \in AckTypes : pkt_ack(id, tp)

Spec == Init /\ [][Next]_allvars

\* The peer acknowledges the oldest request in flight, with the packet type
\* that answers it.
PeerAcksHead ==
    /\ inflight_order # <<>>
    /\ \E e \in inflight : e.id = Head(inflight_order) /\ pkt_ack(e.id, e.tp)

\* What the executor and the peer are bound to do: a future whose channel
\* has resolved was woken and is polled again, and the peer acknowledges
\* what is in flight in order. Nothing obliges the application to start
\* another operation, to drop a future or to close.
Fairness ==
    /\ WF_allvars(PeerAcksHead)
    /\ \A t \in Tasks :
          /\ WF_allvars(ack_resume(t))
          /\ WF_allvars(ready_resume(t))
          /\ WF_allvars(\E tp \in AckTypes, id \in 0..MaxId, encErr \in BOOLEAN :
                           send_resume(t, tp, id, encErr))

FairSpec == Init /\ [][Next]_allvars /\ Fairness

\* The same connection later in its life: the id counter is at its last
\* value, about to wrap.
IdInit ==
    /\ state = "open"
    /\ cap \in 1..MaxCap
    /\ inflight = {}
    /\ inflight_order = <<>>
    /\ waiters = <<>>
    /\ inflight_idx = U16 - 1
    /\ pc = [t \in Tasks |-> "idle"]
    /\ op = [t \in Tasks |-> "none"]
    /\ chan = [t \in Tasks |-> "none"]
    /\ ret = [op |-> "none", val |-> "none"]
    /\ wire = <<>>
    /\ dispatcher = "running"
    /\ handshake_timeout = 0
    /\ max_qos = {}
    /\ hs_pc = "off"
    /\ shared_cap = 0
    /\ max_outbound_size = 0
    /\ keep_alive = 0
    /\ state_open = TRUE
    /\ ack = {}
    /\ connacks = <<>>
    /\ write_shutdown = FALSE
    /\ steps = <<>>
    /\ hs_result = "none"
    /\ srv_control = "DefaultControlService"
    /\ control_log = <<>>

IdSpec == IdInit /\ [][Next]_allvars

TypeOK ==
    /\ state \in {"open", "closed"}
    /\ cap \in 1..MaxCap
    /\ \A e \in inflight : e.tx \in Tasks \cup {0} /\ e.tp \in AckTypes
    /\ \A e, f \in inflight : e.id = f.id => e = f
    /\ dispatcher \in {"running", "panicked"}

\* ======================================================== v5 handshake

QoS == {"AtMostOnce", "AtLeastOnce", "ExactlyOnce"}

\* Option<T> over a set of values: None is {}, Some(v) is {v}.
Option(S) == {{}} \cup {{v} : v \in S}

\* Option::unwrap_or
unwrap_or(o, d) == IF o = {} THEN d ELSE CHOOSE v \in o : TRUE

\* What state.next(..) can give for the first frame: a read or decode
\* error, the end of the stream, or a packet. receive_max and
\* max_packet_size are Options of nonzero numbers.
Connects ==
    [kind : {"Connect"},
     receive_max : Option(1..MaxReceive),
     max_packet_size : Option(1..MaxReceive),
     keep_alive : 0..MaxKeepAlive]

NoFields(k) ==
    [kind |-> k, receive_max |-> {}, max_packet_size |-> {}, keep_alive |-> 0]

FirstFrames ==
    Connects \cup
    {NoFields(k) : k \in {"error", "eof", "PingRequest", "Publish", "Disconnect"}}

\* What the authenticator can answer: an error, or a HandshakeAck with its
\* session, the CONNACK fields the handshake looks at and its keepalive.
\* closed: the authenticator, which holds the shared state, closed it.
Answers ==
    [ok : {TRUE},
     session : Option({"St"}),
     packet : [max_qos : Option(QoS),
               server_keepalive_sec : Option(0..MaxKeepAlive)],
     keepalive : 0..MaxKeepAlive,
     closed : BOOLEAN]
    \cup
    [ok : {FALSE},
     session : {{}},
     packet : [max_qos : {{}}, server_keepalive_sec : {{}}],
     keepalive : {0},
     closed : BOOLEAN]

\* A variant of the mapping below that reports every failure as a timeout.
map_err_timeout(e) == "HandshakeTimeout"

\* The map_err of handshake_service_factory: a TimeoutError::Service(e)
\* gives e, TimeoutError::Timeout gives MqttError::HandshakeTimeout.
map_err(e) ==
    IF e.tag = "Service" THEN e.err ELSE "HandshakeTimeout"

\* The handshake service has its result: Ok(..) of handshake() as it is,
\* an error through Timeout and map_err.
Finish(r) ==
    /\ hs_pc' = "done"
    /\ hs_result' = IF r = "Session" THEN r
                    ELSE map_err([tag |-> "Service", err |-> r])

\* A variant of the mapping below that takes every first frame that is no
\* CONNECT for the end of the stream.
first_frame_disconnected(f) == "Disconnected"

\* The error handshake() returns for a first frame that is no CONNECT: the
\* read error as converted, Disconnected at the end of the stream,
\* Protocol(Unexpected) for another packet.
first_frame_error(f) ==
    CASE f.kind = "error" -> "ReadError"
      [] f.kind = "eof" -> "Disconnected"
      [] OTHER -> "Unexpected"

\* A variant of the condition below that does not look at the state.
reject_encoded_unchecked(open, encErr) == ~encErr

\* The condition under which a rejection is followed by the shutdown of
\* the write side: the state is open, and then the encode of the CONNACK
\* succeeds.
reject_encoded(open, encErr) == open /\ ~encErr

\* A variant of the cap computation below that ignores the CONNECT.
cap_default(connect) == DefaultReceiveMax

\* connect.receive_max.map(|v| v.get()).unwrap_or(16)
cap_of(connect) == unwrap_or(connect.receive_max, DefaultReceiveMax)

\* if let Some(size) = connect.max_packet_size { set_max_outbound_size(..) }
outbound_of(connect) == unwrap_or(connect.max_packet_size, max_outbound_size)

\* A variant of the overrides below that always injects the keepalive.
overrides_always(a, ka) ==
    [max_qos |-> IF a.packet.max_qos = {} THEN max_qos ELSE a.packet.max_qos,
     server_keepalive_sec |-> {a.keepalive}]

\* The server-side overrides of the CONNACK the claims look at: max_qos if
\* unset, server_keepalive_sec if unset and the peer's keep-alive exceeds
\* the server's.
overrides(a, ka) ==
    [max_qos |-> IF a.packet.max_qos = {} THEN max_qos ELSE a.packet.max_qos,
     server_keepalive_sec |->
        IF a.packet.server_keepalive_sec = {} /\ ka > a.keepalive
        THEN {a.keepalive} ELSE a.packet.server_keepalive_sec]

HsInit ==
    /\ state = "open"
    /\ cap = 1
    /\ inflight = {}
    /\ inflight_order = <<>>
    /\ waiters = <<>>
    /\ inflight_idx = 0
    /\ pc = [t \in Tasks |-> "idle"]
    /\ op = [t \in Tasks |-> "none"]
    /\ chan = [t \in Tasks |-> "none"]
    /\ ret = [op |-> "none", val |-> "none"]
    /\ wire = <<>>
    /\ dispatcher = "running"
    /\ handshake_timeout \in 0..MaxTimeout
    /\ max_qos \in Option(QoS)
    /\ hs_pc = "read"
    /\ shared_cap = 0
    /\ max_outbound_size = 0
    /\ keep_alive = 0
    /\ state_open = TRUE
    /\ ack = {}
    /\ connacks = <<>>
    /\ write_shutdown = FALSE
    /\ steps = <<>>
    /\ hs_result = "none"
    /\ srv_control = "DefaultControlService"
    /\ control_log = <<>>

\* handshake(): state.next(..) has resolved with the first frame f; up to
\* the call of the authenticator, or to the error returned.
handshake_next(f) ==
    /\ hs_pc = "read"
    /\ UNCHANGED <<vars, ctlvars, handshake_timeout, max_qos, state_open, ack, connacks,
                   write_shutdown>>
    /\ IF f.kind = "Connect"
       THEN /\ max_outbound_size' = outbound_of(f)
            /\ shared_cap' = cap_of(f)
            /\ keep_alive' = f.keep_alive
            /\ steps' = steps \o <<"READ_CONNECT", "CALL_AUTH">>
            /\ hs_pc' = "auth"
            /\ UNCHANGED hs_result
       ELSE /\ Finish(first_frame_error(f))
            /\ UNCHANGED <<max_outbound_size, shared_cap, keep_alive, steps>>

\* handshake(): service.call(..) has resolved with the answer a; up to the
\* send of the CONNACK, the shutdown of the write side, or the error
\* returned. encErr: the encode of the rejection CONNACK fails.
handshake_call(a, encErr) ==
    /\ hs_pc = "auth"
    /\ state_open' = (state_open /\ ~a.closed)
    /\ IF ~a.ok
       THEN /\ Finish("Service")
            /\ UNCHANGED <<ack, connacks, steps>>
       ELSE IF a.session # {}
       THEN /\ ack' = {[packet |-> overrides(a, keep_alive),
                        keepalive |-> a.keepalive]}
            /\ steps' = Append(steps, "WRITE_CONNACK")
            /\ hs_pc' = "send"
            /\ UNCHANGED <<connacks, hs_result>>
       ELSE IF reject_encoded(state_open', encErr)
       THEN /\ connacks' = Append(connacks, [session |-> FALSE, packet |-> a.packet])
            /\ steps' = steps \o <<"WRITE_CONNACK", "SHUTDOWN">>
            /\ hs_pc' = "shutdown"
            /\ UNCHANGED <<ack, hs_result>>
       ELSE /\ Finish("Disconnected")
            /\ UNCHANGED <<ack, connacks, steps>>
    /\ UNCHANGED <<vars, ctlvars, handshake_timeout, max_qos, shared_cap,
                   max_outbound_size, keep_alive, write_shutdown>>

\* A variant of handshake_send below that hands the session over whether
\* or not the CONNACK was written.
handshake_send_unchecked(ok) ==
    /\ hs_pc = "send"
    /\ UNCHANGED <<vars, ctlvars, handshake_timeout, max_qos, shared_cap,
                   max_outbound_size, keep_alive, state_open, ack,
                   write_shutdown, steps>>
    /\ connacks' = IF ok THEN Append(connacks,
                       [session |-> TRUE, packet |-> unwrap_or(ack, {}).packet])
                   ELSE connacks
    /\ Finish("Session")

\* handshake(): state.send(.., ConnectAck(ack.packet)) has resolved, with
\* the CONNACK written (ok) or with an error.
handshake_send(ok) ==
    /\ hs_pc = "send"
    /\ UNCHANGED <<vars, ctlvars, handshake_timeout, max_qos, shared_cap,
                   max_outbound_size, keep_alive, state_open, ack,
                   write_shutdown, steps>>
    /\ IF ok
       THEN /\ connacks' = Append(connacks,
                   [session |-> TRUE, packet |-> unwrap_or(ack, {}).packet])
            /\ Finish("Session")
       ELSE /\ Finish("WriteError")
            /\ UNCHANGED connacks

\* handshake(): WriteTask::shutdown(..) has resolved.
handshake_shutdown ==
    /\ hs_pc = "shutdown"
    /\ write_shutdown' = TRUE
    /\ Finish("Disconnected")
    /\ UNCHANGED <<vars, ctlvars, handshake_timeout, max_qos, shared_cap,
                   max_outbound_size, keep_alive, state_open, ack, connacks,
                   steps>>

\* Timeout: the deadline elapses while handshake() is suspended; the
\* handshake future is dropped. A duration of zero sets no deadline.
Timeout ==
    /\ handshake_timeout > 0
    /\ hs_pc \in {"read", "auth", "send", "shutdown"}
    /\ hs_pc' = "done"
    /\ hs_result' = map_err([tag |-> "Timeout", err |-> "none"])
    /\ UNCHANGED <<vars, ctlvars, handshake_timeout, max_qos, shared_cap,
                   max_outbound_size, keep_alive, state_open, ack, connacks,
                   write_shutdown, steps>>

HsNext ==
    \/ \E f \in FirstFrames : handshake_next(f)
    \/ \E a \in Answers, encErr \in BOOLEAN : handshake_call(a, encErr)
    \/ \E ok \in BOOLEAN : handshake_send(ok)
    \/ handshake_shutdown
    \/ Timeout

HsSpec == HsInit /\ [][HsNext]_allvars

\* ================================================ default control service

ControlVariants == {"Ping", "Disconnect", "Subscribe", "Unsubscribe", "Closed"}

\* The ControlPacket values: a variant and, for Subscribe and Unsubscribe,
\* the packet id of the request it carries.
ControlPackets ==
    {[variant |-> v, packet_id |-> 0] : v \in {"Ping", "Disconnect", "Closed"}}
    \cup [variant : {"Subscribe", "Unsubscribe"}, packet_id : 1..MaxId]

\* The ack() of a control message: the ControlResult that answers this
\* message.
ack_result(pkt) == [result |-> pkt.variant, packet_id |-> pkt.packet_id]

\* A variant of call below that answers every message as a Ping.
call_as_ping(subs) ==
    [tag |-> "Ok", val |-> ack_result([variant |-> "Ping", packet_id |-> 0])]

\* DefaultControlService::call
call(subs) ==
    [tag |-> "Ok",
     val |-> CASE subs.variant = "Ping" -> ack_result(subs)
               [] subs.variant = "Disconnect" -> ack_result(subs)
               [] subs.variant = "Subscribe" -> ack_result(subs)
               [] subs.variant = "Unsubscribe" -> ack_result(subs)
               [] subs.variant = "Closed" -> ack_result(subs)]

\* DefaultControlService::poll_ready
poll_ready == [tag |-> "Ready(Ok)", val |-> [result |-> "unit", packet_id |-> 0]]

\* What a service supplied by the user may answer to a message: the
\* message's ack, or an error.
UserAnswers(pkt) ==
    {[tag |-> "Ok", val |-> ack_result(pkt)],
     [tag |-> "Err", val |-> [result |-> "unit", packet_id |-> 0]]}

CtlInit ==
    /\ state = "open"
    /\ cap = 1
    /\ inflight = {}
    /\ inflight_order = <<>>
    /\ waiters = <<>>
    /\ inflight_idx = 0
    /\ pc = [t \in Tasks |-> "idle"]
    /\ op = [t \in Tasks |-> "none"]
    /\ chan = [t \in Tasks |-> "none"]
    /\ ret = [op |-> "none", val |-> "none"]
    /\ wire = <<>>
    /\ dispatcher = "running"
    /\ handshake_timeout = 0
    /\ max_qos = {}
    /\ hs_pc = "off"
    /\ shared_cap = 0
    /\ max_outbound_size = 0
    /\ keep_alive = 0
    /\ state_open = TRUE
    /\ ack = {}
    /\ connacks = <<>>
    /\ write_shutdown = FALSE
    /\ steps = <<>>
    /\ hs_result = "none"
    /\ srv_control = "DefaultControlService"
    /\ control_log = <<>>

\* MqttServer::control: the user supplies a control service.
control ==
    /\ srv_control = "DefaultControlService"
    /\ control_log = <<>>
    /\ srv_control' = "User"
    /\ UNCHANGED <<vars, hsvars, control_log>>

\* The dispatcher asks the control service whether it is ready.
control_poll_ready ==
    /\ Len(control_log) < MaxCalls
    /\ \E res \in IF srv_control = "DefaultControlService" THEN {poll_ready}
                  ELSE {poll_ready, [poll_ready EXCEPT !.tag = "Pending"]} :
          control_log' = Append(control_log,
              [by |-> srv_control,
               req |-> [variant |-> "poll_ready", packet_id |-> 0],
               res |-> res])
    /\ UNCHANGED <<vars, hsvars, srv_control>>

\* The dispatcher hands one control message to the control service.
control_call(pkt) ==
    /\ Len(control_log) < MaxCalls
    /\ \E res \in IF srv_control = "DefaultControlService" THEN {call(pkt)}
                  ELSE UserAnswers(pkt) :
          control_log' = Append(control_log,
              [by |-> srv_control, req |-> pkt, res |-> res])
    /\ UNCHANGED <<vars, hsvars, srv_control>>

CtlNext ==
    \/ control
    \/ control_poll_ready
    \/ \E pkt \in ControlPackets : control_call(pkt)

CtlSpec == CtlInit /\ [][CtlNext]_allvars

\* ============================================================== claims

Ret(o, v) == [op |-> o, val |-> v]

\* Waiting futures: suspended, with nothing yet delivered to their receiver.
Stranded(t) == pc[t] \in {"credit", "ack"} /\ chan[t] = "pending"

\* The step just taken is a call of pkt_ack / a step of a send.
IsAck == ret'.op = "pkt_ack"
IsSend == ret'.op = "send"

\* C1: pkt_ack with an ack whose id is not the head of inflight_order, or
\* with inflight_order empty, leaves the connection not open, inflight and
\* waiters empty, and returns PacketIdMismatch.
C1_MismatchClosesAndReturns ==
    [][IsAck =>
       \A id \in AckIds, tp \in AckTypes :
          ((inflight_order = <<>> \/ Head(inflight_order) # id)
             /\ pkt_ack(id, tp))
          => /\ state' # "open"
             /\ inflight' = {}
             /\ waiters' = <<>>
             /\ ret' = Ret("pkt_ack", "PacketIdMismatch")]_vars

\* C2: in every reachable state |inflight| <= cap, so credit() >= 0.
C2_InflightWithinCap == Cardinality(inflight) <= cap /\ credit >= 0

\* C3: inflight and inflight_order have the same size and the same ids.
C3_QueuesAgree ==
    /\ Len(inflight_order) = Cardinality(inflight)
    /\ SeqSet(inflight_order) = Keys

\* C4: once close() or force_close() has been called, none of the sends
\* that were pending stays suspended with nothing to wake it, and none has
\* an id registered in inflight.
C4_CloseStrandsNoSend ==
    (state = "closed" /\ dispatcher = "running")
        => /\ inflight = {}
           /\ \A t \in Tasks : ~Stranded(t)

\* C5: an ack that arrives in the order of the sends and with the matching
\* type makes pkt_ack return Ok, frees one credit and delivers to the send's
\* reply channel; a send whose reply channel got its ack resolves Ok; and on
\* an open connection credit() is back at cap once every id was acked.
C5_InOrderAcksSucceed ==
    [][/\ IsAck =>
          \A id \in AckIds, tp \in AckTypes :
            (/\ inflight_order # <<>> /\ Head(inflight_order) = id
             /\ contains_key(id) /\ get(id).tp = tp
             /\ pkt_ack(id, tp))
            => /\ ret' = Ret("pkt_ack", "Ok")
               /\ state' = state
               /\ inflight' = inflight \ {get(id)}
               /\ inflight_order' = Tail(inflight_order)
               /\ credit' = credit + 1
               /\ get(id).tx # 0 => chan'[get(id).tx] = "sent"
       /\ IsSend =>
          \A t \in Tasks :
            (pc[t] = "ack" /\ chan[t] = "sent" /\ ack_resume(t))
               => ret' = Ret("send", "Ok")
       /\ (is_open' /\ inflight_order' = <<>>)
            => (inflight' = {} /\ credit' = cap')]_vars

\* C5 witness: on an open connection the second of two in-flight requests
\* was acked in order, its reply is delivered and the credit is back at cap.
C5_Witness ==
    /\ ret = Ret("pkt_ack", "Ok")
    /\ is_open /\ inflight = {} /\ inflight_order = <<>> /\ credit = cap
    /\ \E t \in Tasks : pc[t] = "ack" /\ chan[t] = "sent"
    /\ inflight_idx >= 2

\* C6: an ack for an id that is in flight but not at the head closes the
\* connection and fails every send awaiting its ack: its reply channel is
\* closed, so that it resolves Disconnected.
C6_OutOfOrderFailsAll ==
    [][IsAck =>
       \A id \in AckIds, tp \in AckTypes :
          (/\ inflight_order # <<>> /\ Head(inflight_order) # id
           /\ id \in SeqSet(inflight_order)
           /\ pkt_ack(id, tp))
          => /\ state' # "open"
             /\ \A t \in Tasks :
                  (pc[t] = "ack" /\ chan[t] = "pending") => chan'[t] = "closed"]_vars

\* C7: an ack for the head id whose type differs from the registered AckType
\* closes the connection and returns Unexpected.
C7_TypeMismatchReturnsUnexpected ==
    [][IsAck =>
       \A id \in AckIds, tp \in AckTypes :
          (/\ inflight_order # <<>> /\ Head(inflight_order) = id
           /\ contains_key(id) /\ get(id).tp # tp
           /\ pkt_ack(id, tp))
          => /\ state' # "open"
             /\ ret' = Ret("pkt_ack", "Unexpected")]_vars

\* The position in waiters of the oldest waiter whose receiver is alive
\* (0: none).
FirstAlive ==
    LET alive == {i \in DOMAIN waiters : waiters[i] # 0 /\ pc[waiters[i]] = "credit"}
    IN  IF alive = {} THEN 0
        ELSE CHOOSE i \in alive : \A j \in alive : i <= j

\* C8: a send issued with credit() = 0 on an open connection suspends and
\* registers nothing; a successful pkt_ack wakes the oldest waiter whose
\* receiver is alive, drops the dead ones ahead of it, and wakes no other.
C8_AckWakesOldestLiveWaiter ==
    [][/\ (IsSend /\ is_open /\ credit = 0) =>
          \A t \in Tasks :
            (pc[t] = "idle" /\ pc'[t] # "idle")
            => /\ pc'[t] = "credit" /\ chan'[t] = "pending"
               /\ waiters' = Append(waiters, t)
               /\ inflight' = inflight /\ inflight_order' = inflight_order
       /\ (IsAck /\ ret' = Ret("pkt_ack", "Ok")) =>
            IF FirstAlive = 0
            THEN /\ waiters' = <<>>
                 /\ \A t \in Tasks : pc[t] = "credit" => chan'[t] = chan[t]
            ELSE /\ chan[waiters[FirstAlive]] = "pending"
                 /\ chan'[waiters[FirstAlive]] = "sent"
                 /\ waiters' = SubSeq(waiters, FirstAlive + 1, Len(waiters))
                 /\ \A t \in Tasks :
                      (pc[t] = "credit" /\ t # waiters[FirstAlive])
                         => chan'[t] = chan[t]]_vars

\* C8 witness: an ack has just woken one waiter while another one, queued
\* behind it, stays suspended in the queue.
C8_Witness ==
    /\ ret = Ret("pkt_ack", "Ok")
    /\ \E t, u \in Tasks :
         /\ pc[t] = "credit" /\ chan[t] = "sent"
         /\ pc[u] = "credit" /\ chan[u] = "pending"
         /\ waiters = <<u>>

\* C9: a send whose encode fails returns Encode and leaves inflight and
\* inflight_order as they were before the send.
C9_EncodeFailureUnregisters ==
    [][ret' = Ret("send", "Encode")
          => (inflight' = inflight /\ inflight_order' = inflight_order)]_vars

\* The step is the part of a send of task t that checks packet id `id`.
ChecksId(t, id) ==
    \E tp \in AckTypes, encErr \in BOOLEAN :
        \/ pc[t] = "idle" /\ is_open /\ has_credit /\ Send(t, tp, id, encErr)
        \/ pc[t] = "credit" /\ chan[t] = "sent" /\ send_resume(t, tp, id, encErr)

\* C10: a send with an explicit packet id that is a key of inflight returns
\* PacketIdInUse, does not close the connection, and leaves inflight,
\* inflight_order and the reply channel of the existing entry as they were,
\* so that the entry can still be acked.
C10_IdInUseLeavesQueues ==
    [][IsSend =>
       \A t \in Tasks, id \in 1..MaxId :
          (pc'[t] # pc[t] /\ contains_key(id) /\ ChecksId(t, id))
          => /\ ret' = Ret("send", "PacketIdInUse")
             /\ state' = state /\ dispatcher' = dispatcher
             /\ inflight' = inflight
             /\ inflight_order' = inflight_order
             /\ \A u \in Tasks : u # t => chan'[u] = chan[u]]_vars

\* C10 witness: a send has just failed with PacketIdInUse on an open
\* connection while the request holding that id still awaits its ack.
C10_Witness ==
    /\ ret = Ret("send", "PacketIdInUse")
    /\ is_open /\ dispatcher = "running"
    /\ \E e \in inflight :
         e.id \in 1..MaxId /\ e.tx # 0 /\ pc[e.tx] = "ack" /\ chan[e.tx] = "pending"

\* C11: the step of close() or force_close() leaves the connection not
\* open, inflight, inflight_order and waiters empty, and every reply or
\* waiter channel it dropped closed for its receiver.
C11_CloseDrainsEverything ==
    [][ret'.op \in {"close", "force_close"} =>
         /\ state' # "open"
         /\ inflight' = {}
         /\ inflight_order' = <<>>
         /\ waiters' = <<>>
         /\ \A t \in Tasks : Stranded(t) => chan'[t] = "closed"]_vars

\* C12: send_at_most_once never suspends and leaves inflight,
\* inflight_order, waiters and credit() unchanged; it returns Disconnected
\* when the connection is not open, Encode when the encode fails, and
\* otherwise writes exactly one PUBLISH with QoS 0.
C12_AtMostOnceLeavesQueues ==
    [][ret'.op = "send_at_most_once" =>
         /\ pc' = pc /\ chan' = chan /\ ret'.val # "Pending"
         /\ inflight' = inflight /\ inflight_order' = inflight_order
         /\ waiters' = waiters /\ credit' = credit
         /\ ~is_open => (ret'.val = "Disconnected" /\ wire' = <<>>)
         /\ is_open => ret'.val \in {"Encode", "Ok"}
         /\ ret'.val = "Encode" => wire' = <<>>
         /\ ret'.val = "Ok" =>
              /\ Len(wire') = 1
              /\ wire'[1].packet = "Publish" /\ wire'[1].qos = "AtMostOnce"]_vars

\* C12 witness: a QoS 0 publish has just been written on a connection that
\* has a request in flight and a sender queued for credit.
C12_Witness ==
    /\ ret = Ret("send_at_most_once", "Ok")
    /\ Len(wire) = 1
    /\ inflight # {} /\ waiters # <<>>

\* A ready() future suspended on its waiter, nothing delivered yet.
ReadyWaits(t) == pc[t] = "credit" /\ op[t] = "Ready" /\ chan[t] = "pending"

\* C13: ready() resolves true at once on an open connection with a free
\* slot and false on a connection that is not open; with no slot free it
\* suspends, resolves true once an ack wakes it, and is failed (resolves
\* false) by whatever step closes the connection before that.
C13_ReadyResolves ==
    [][/\ ret'.op = "ready" =>
          \A t \in Tasks :
             /\ (pc[t] = "idle" /\ pc'[t] # "idle") =>
                  /\ ~is_open => ret'.val = "false"
                  /\ (is_open /\ Cardinality(inflight) < cap) => ret'.val = "true"
                  /\ (is_open /\ Cardinality(inflight) >= cap) =>
                        /\ ret'.val = "Pending" /\ ReadyWaits(t)'
                        /\ waiters' = Append(waiters, t)
             /\ (pc[t] = "credit" /\ pc'[t] = "done") =>
                  ret'.val = IF chan[t] = "sent" THEN "true" ELSE "false"
       /\ \A t \in Tasks :
             (ReadyWaits(t) /\ chan'[t] = "sent") => ret' = Ret("pkt_ack", "Ok")
       /\ (is_open /\ ~is_open') =>
             \A t \in Tasks : ReadyWaits(t) => chan'[t] = "closed"]_vars

\* C14: dropping a send future that awaits its ack leaves its id in
\* inflight and inflight_order; the matching in-order ack for an entry
\* whose receiver is gone returns Ok, removes the id, frees one credit and
\* leaves the connection state as it was.
C14_DroppedSendStillAcked ==
    [][/\ ret'.op = "drop" =>
          \A t \in Tasks, e \in inflight :
             (e.tx = t /\ pc[t] = "ack" /\ pc'[t] # "ack") =>
                /\ contains_key(e.id)' /\ Keys' = Keys
                /\ inflight_order' = inflight_order
       /\ IsAck =>
          \A id \in AckIds, tp \in AckTypes :
             (/\ inflight_order # <<>> /\ Head(inflight_order) = id
              /\ contains_key(id) /\ get(id).tp = tp /\ get(id).tx = 0
              /\ pkt_ack(id, tp))
             => /\ ret' = Ret("pkt_ack", "Ok")
                /\ inflight' = inflight \ {get(id)}
                /\ inflight_order' = Tail(inflight_order)
                /\ credit' = credit + 1
                /\ state' = state /\ dispatcher' = dispatcher]_vars

\* C14 witness: the only operation started so far is a send that was
\* dropped while it awaited its ack: its id is still registered, at the
\* head of the order queue, on an open connection.
C14_Witness ==
    /\ ret = Ret("drop", "dropped")
    /\ is_open
    /\ Cardinality({t \in Tasks : pc[t] # "idle"}) = 1
    /\ \E e \in inflight :
         e.tx = 0 /\ inflight_order # <<>> /\ Head(inflight_order) = e.id


\* ------------------------------------------------- claims: v5 handshake

\* The stages handshake() has entered.
Entered(stage) == \E i \in DOMAIN steps : steps[i] = stage

\* C15: if the stream ends before a first frame the handshake fails with
\* Disconnected, and if the first frame is a packet other than CONNECT it
\* fails with Protocol(Unexpected); in both cases the authenticator is not
\* called, no CONNACK is written and no Session is produced.
C15_FirstFrameMustBeConnect ==
    [][hs_pc = "read" =>
       \A f \in FirstFrames :
          (f.kind \notin {"Connect", "error"} /\ handshake_next(f))
          => /\ hs_result' = IF f.kind = "eof" THEN "Disconnected" ELSE "Unexpected"
             /\ hs_pc' = "done"
             /\ ~Entered("CALL_AUTH")'
             /\ connacks' = <<>>
             /\ ack' = {}]_hsvars

\* C15 witness: the handshake has failed with Protocol(Unexpected) without
\* a call of the authenticator and without a CONNACK.
C15_Witness ==
    /\ hs_result = "Unexpected" /\ hs_pc = "done"
    /\ steps = <<>> /\ connacks = <<>>

\* C16: when the authenticator answers with session = None, handshake()
\* produces no Session and returns Disconnected; the rejection CONNACK is
\* encoded only if the state is still open, and the write side is shut down
\* only after that encode succeeded.
C16_RejectionFailsDisconnected ==
    [][/\ hs_pc = "auth" =>
          \A a \in Answers, encErr \in BOOLEAN :
             (a.ok /\ a.session = {} /\ handshake_call(a, encErr))
             => /\ hs_result' \in {"none", "Disconnected"}
                /\ ack' = {}
                /\ connacks' # connacks =>
                     /\ state_open' /\ ~a.closed
                     /\ connacks' = <<[session |-> FALSE, packet |-> a.packet]>>
                /\ hs_pc' = "shutdown" <=> connacks' # connacks
                /\ hs_pc' # "shutdown" => hs_result' = "Disconnected"
                /\ write_shutdown' = FALSE
       /\ hs_pc = "shutdown" =>
             /\ Len(connacks) = 1 /\ ~connacks[1].session
             /\ hs_result' \in {"Disconnected", "HandshakeTimeout"}
             /\ handshake_shutdown => (hs_result' = "Disconnected" /\ write_shutdown')
       /\ write_shutdown' => hs_pc \in {"shutdown", "done"}]_hsvars

\* C16 witness: a rejection whose CONNACK was encoded and whose write side
\* was shut down has failed with Disconnected.
C16_Witness ==
    /\ hs_result = "Disconnected" /\ write_shutdown
    /\ Len(connacks) = 1 /\ ~connacks[1].session
    /\ steps = <<"READ_CONNECT", "CALL_AUTH", "WRITE_CONNACK", "SHUTDOWN">>

\* C17: a Session is returned only along READ_CONNECT, CALL_AUTH (session =
\* Some), WRITE_CONNACK, with the CONNACK written before the hand-off; a
\* failed CONNACK write fails the handshake and returns no Session.
C17_SessionOnlyAfterConnack ==
    [][/\ hs_result' = "Session" =>
          /\ steps' = <<"READ_CONNECT", "CALL_AUTH", "WRITE_CONNACK">>
          /\ ack' # {}
          /\ Len(connacks') = 1 /\ connacks'[1].session
          /\ ~write_shutdown'
       /\ hs_pc = "send" =>
          (handshake_send(FALSE) =>
              /\ hs_result' \notin {"none", "Session"}
              /\ hs_pc' = "done" /\ connacks' = <<>>)]_hsvars

\* C17 witness: a Session was handed over after the three stages, with one
\* accepting CONNACK written.
C17_Witness ==
    /\ hs_result = "Session"
    /\ steps = <<"READ_CONNECT", "CALL_AUTH", "WRITE_CONNACK">>
    /\ Len(connacks) = 1 /\ connacks[1].session

\* C18: with handshake_timeout > 0 the deadline can fire at every
\* suspension point of the handshake, and then the result is
\* HandshakeTimeout and no Session is produced; the handshake's own errors
\* are not turned into a timeout; with handshake_timeout = 0 no timeout
\* fires.
C18_OneDeadlineCoversHandshake ==
    /\ []((handshake_timeout > 0 /\ hs_pc \in {"read", "auth", "send"})
             => ENABLED Timeout)
    /\ [](handshake_timeout = 0
             => (~ENABLED Timeout /\ hs_result # "HandshakeTimeout"))
    /\ [][/\ Timeout => (hs_result' = "HandshakeTimeout" /\ hs_pc' = "done")
          /\ hs_result' = "HandshakeTimeout" => Timeout
          /\ hs_result # "none" => hs_result' = hs_result]_hsvars

\* C18 witness: the deadline fired while the CONNACK was being written.
C18_Witness ==
    /\ hs_result = "HandshakeTimeout" /\ handshake_timeout > 0
    /\ steps = <<"READ_CONNECT", "CALL_AUTH", "WRITE_CONNACK">>
    /\ connacks = <<>>

\* C19: the step that reads a CONNECT and invokes the authenticator sets
\* cap to the peer's receive_max when there is one and to 16 otherwise,
\* and the outbound size limit to the peer's max_packet_size when there is
\* one, leaving it unchanged otherwise.
C19_ConnectSetsCapAndLimit ==
    [][hs_pc = "read" =>
       \A f \in Connects :
          handshake_next(f)
          => /\ hs_pc' = "auth" /\ steps' = <<"READ_CONNECT", "CALL_AUTH">>
             /\ f.receive_max = {} => shared_cap' = DefaultReceiveMax
             /\ \A r \in 1..MaxReceive : f.receive_max = {r} => shared_cap' = r
             /\ f.max_packet_size = {} => max_outbound_size' = max_outbound_size
             /\ \A m \in 1..MaxReceive :
                   f.max_packet_size = {m} => max_outbound_size' = m]_hsvars

\* C19 witness: the authenticator is being called for a CONNECT that
\* declared a receive_max and a max_packet_size.
C19_Witness ==
    /\ hs_pc = "auth"
    /\ shared_cap = 1 /\ max_outbound_size = 1

\* C20: on an accepted handshake the CONNACK's server_keepalive is the
\* server's keepalive exactly when the authenticator left it unset and the
\* peer's keep_alive is strictly greater than the server's keepalive, and
\* is the authenticator's value otherwise; max_qos is the configured
\* default only when the authenticator left it unset; and the CONNACK sent
\* is that packet.
C20_KeepaliveAndQosOverrides ==
    [][/\ (hs_pc = "auth" /\ hs_pc' = "send") =>
          \A a \in Answers, encErr \in BOOLEAN :
             (a.ok /\ a.session # {} /\ handshake_call(a, encErr))
             => \E h \in ack' :
                 /\ ack' = {h}
                 /\ h.packet.server_keepalive_sec =
                       IF a.packet.server_keepalive_sec = {} /\ keep_alive > a.keepalive
                       THEN {a.keepalive}
                       ELSE a.packet.server_keepalive_sec
                 /\ h.packet.max_qos =
                       IF a.packet.max_qos = {} THEN max_qos ELSE a.packet.max_qos
       /\ hs_pc = "send" =>
          (handshake_send(TRUE) =>
              \E h \in ack : connacks' = <<[session |-> TRUE, packet |-> h.packet]>>)]_hsvars

\* C20 witness: a CONNACK was sent with the server's keepalive to a peer
\* whose keep-alive exceeds it, and with the configured max_qos.
C20_Witness ==
    /\ hs_result = "Session"
    /\ \E h \in ack :
         /\ keep_alive > h.keepalive /\ handshake_timeout > 0
         /\ connacks = <<[session |-> TRUE, packet |-> h.packet]>>
         /\ h.packet.server_keepalive_sec = {h.keepalive}
         /\ max_qos # {} /\ h.packet.max_qos = max_qos


\* ------------------------------------------------------ claims: sink, 2

\* The step is one in which a send allocates its id itself: next_id() was
\* called and has moved the counter.
AllocatesId == inflight_idx' # inflight_idx

C22_SendOnClosedIsDisconnected ==
    [][(IsSend /\ state # "open") =>
       \A t \in Tasks :
          (pc[t] = "idle" /\ pc'[t] # "idle")
          => /\ ret' = Ret("send", "Disconnected")
             /\ pc'[t] = "done"
             /\ state' = state /\ dispatcher' = dispatcher
             /\ inflight' = inflight /\ inflight_order' = inflight_order
             /\ waiters' = waiters /\ inflight_idx' = inflight_idx
             /\ wire' = <<>>
             /\ \A u \in Tasks : u # t => (pc'[u] = pc[u] /\ chan'[u] = chan[u])]_vars

\* C22 witness: the only operation started so far is a send that found the
\* connection closed by close() and returned Disconnected.
C22_Witness ==
    /\ ret = Ret("send", "Disconnected")
    /\ state = "closed" /\ dispatcher = "running"
    /\ inflight_order = <<>> /\ inflight_idx = 0
    /\ Cardinality({t \in Tasks : pc[t] # "idle"}) = 1

\* ------------------------------------------------ claims: control service

\* C23: the default control service, which serves as long as the user
\* supplied none, is always ready and answers every control message with
\* that message's own ack() result, never with an error.
C23_DefaultControlAcksEverything ==
    \A i \in DOMAIN control_log :
       LET c == control_log[i] IN
       /\ srv_control = "DefaultControlService" => c.by = "DefaultControlService"
       /\ c.by = "DefaultControlService" =>
             IF c.req.variant = "poll_ready"
             THEN c.res.tag = "Ready(Ok)"
             ELSE /\ c.req.variant \in ControlVariants
                  /\ c.res.tag = "Ok"
                  /\ c.res.val.result = c.req.variant
                  /\ c.res.val.packet_id = c.req.packet_id

\* C23 witness: the default service was polled and has answered a
\* Subscribe and a Closed message.
C23_Witness ==
    /\ srv_control = "DefaultControlService"
    /\ Len(control_log) = 3
    /\ control_log[1].req.variant = "poll_ready"
    /\ control_log[2].req.variant = "Subscribe" /\ control_log[2].res.tag = "Ok"
    /\ control_log[3].req.variant = "Closed" /\ control_log[3].res.tag = "Ok"

\* ------------------------------------------------------ claims: sink, 3

\* The ids of the requests that expect an ack among the frames of wire.
WrittenIds(w) ==
    {w[i].packet_id : i \in {j \in DOMAIN w : w[j].qos # "AtMostOnce"}}

\* C24: while the connection is open, inflight_order is the sequence of
\* the ids of the requests written to the wire and not yet acked, in the
\* order they were written: an id joins inflight and the end of
\* inflight_order exactly when its request is written, and the ids of
\* inflight are those of inflight_order.
C24_InflightIsWhatTheWireSaw ==
    [][state' = "open" =>
          /\ Keys' = SeqSet(inflight_order')
          /\ Keys' \ Keys = WrittenIds(wire')
          /\ \A id \in WrittenIds(wire') :
                inflight_order' = Append(inflight_order, id)
          /\ WrittenIds(wire') = {} =>
                \/ inflight_order' = inflight_order
                \/ /\ inflight_order # <<>>
                   /\ inflight_order' = Tail(inflight_order)
                   /\ ret' = Ret("pkt_ack", "Ok")]_vars

\* C26: queues is never borrowed mutably while another mutable borrow of it
\* is live: no call of pkt_ack, close, force_close, ready or a send reaches
\* a borrow_mut() of queues that panics.
C26_QueuesNeverBorrowedTwice ==
    /\ dispatcher = "running"
    /\ ret.val # "panic"

\* C27: once the connection is closed, no step of a send registers an id in
\* inflight or inflight_order or writes a request, a send that was woken
\* for credit before the close and resumes after it included; inflight,
\* once emptied by the close, stays empty.
C27_NoRegistrationAfterClose ==
    [][state # "open" =>
          /\ Keys' \subseteq Keys
          /\ Len(inflight_order') <= Len(inflight_order)
          /\ WrittenIds(wire') = {}
          /\ inflight = {} => inflight' = {}]_vars

\* C28: a successful pkt_ack takes the id at the head of inflight_order,
\* which is the ack's id, out of inflight_order and inflight, leaves every
\* other entry, its AckType and its position as they were, and delivers the
\* ack to the send registered under that id and to no other send awaiting
\* an ack; a send that has received its ack is no longer registered, so it
\* receives no second one.
C28_AckTouchesOnlyItsOwnEntry ==
    /\ [](\A t \in Tasks :
            /\ (pc[t] = "ack" /\ chan[t] = "sent") => \A e \in inflight : e.tx # t
            /\ Cardinality({e \in inflight : e.tx = t}) <= 1)
    /\ [][ret' = Ret("pkt_ack", "Ok") =>
            /\ inflight_order # <<>>
            /\ inflight_order' = Tail(inflight_order)
            /\ inflight' = {e \in inflight : e.id # Head(inflight_order)}
            /\ Cardinality(inflight') = Cardinality(inflight) - 1
            /\ \A t \in Tasks :
                  pc[t] = "ack" =>
                     IF \E e \in inflight : e.id = Head(inflight_order) /\ e.tx = t
                     THEN chan[t] = "pending" /\ chan'[t] = "sent"
                     ELSE chan'[t] = chan[t]]_vars

\* C28 witness: of two requests in flight the first was acked: its send has
\* the ack, the second is still registered and still waits.
C28_Witness ==
    /\ ret = Ret("pkt_ack", "Ok")
    /\ Len(inflight_order) = 1
    /\ \E t \in Tasks : pc[t] = "ack" /\ chan[t] = "sent"
    /\ \E t \in Tasks :
          /\ pc[t] = "ack" /\ chan[t] = "pending"
          /\ \E e \in inflight : e.tx = t /\ e.id = Head(inflight_order)

\* A send suspended in the waiters queue on an open connection that has a
\* free slot.
SuspendedWithCredit(t) ==
    /\ is_open
    /\ Cardinality(inflight) < cap
    /\ pc[t] = "credit" /\ op[t] = "Send" /\ chan[t] = "pending"

\* C25: on a connection that stays open, with the peer acknowledging every
\* request in flight in order and every woken future polled, no send stays
\* suspended in the waiters queue for ever while a slot is free.
C25_NoWaiterStrandedWithCredit ==
    \A t \in Tasks : SuspendedWithCredit(t) ~> ~SuspendedWithCredit(t)

====
